---- MODULE Spec2Model ----
(***************************************************************************)
(* One run of one of the six deployment scripts of the Cloudflare DNS      *)
(* security baseline against a remote API whose answers are arbitrary      *)
(* (Spec), and consecutive runs of one script against a remote system that *)
(* keeps what it accepted (SpecRerun).                                     *)
(* A step of the model is one statement group of main() or of the Locator  *)
(* that ends at a blocking network call; the remote system's view of a run *)
(* is the sequence `log` of requests with the answers it gave.             *)
(***************************************************************************)
EXTENDS Integers, Sequences, FiniteSets, TLC

VARIABLES
    script,         \* which script's main() runs
    build,          \* how the installed requests library reports an undecodable body
    api_token,      \* os.environ.get("CLOUDFLARE_API_TOKEN")
    zone_id,        \* os.environ.get("ZONE_ID")
    pc,             \* position of the run
    rulesets,       \* local of the Locator: the 'result' list of the list call
    ruleset_id,     \* main(): value the Locator returned
    idx,            \* main(): position of the loop over the mutations (1-based)
    success_count,  \* main(): the tally of succeeded mutations
    exit_code,      \* process exit status (meaningful once pc = "done")
    log,            \* the requests the remote system received in this run, with its answers
    stderr,         \* the diagnostics the run wrote to sys.stderr, one entry per failed call
    policy,         \* how the remote system answers
    remote,         \* what the remote system holds (followed unless policy = "arbitrary")
    run,            \* number of the current run of the script
    completed       \* number of runs that ran to the end of main()

vars == <<script, build, api_token, zone_id, pc, rulesets, ruleset_id, idx,
          success_count, exit_code, log, stderr, policy, remote, run, completed>>

----------------------------------------------------------------------------
(* Bounds and value universes *)

\* longest 'result' list the remote system returns to the list call
MaxRulesets == 2

\* most consecutive runs of a script
MaxRuns == 2

\* Python None, also what dict.get() gives for a missing key
None == "<None>"

CacheScript == "deploy_cache_rules"
FirewallScript == "deploy_securityrules"
TlsScript == "deploy_dns_sec_settings"
SecScript == "deploy_sec_settings"
SpeedScript == "deploy_speed"
RateLimitScript == "deploy_rate_limiting"

Scripts == {CacheScript, FirewallScript, TlsScript, SecScript, SpeedScript, RateLimitScript}
LocatorScripts == {CacheScript, FirewallScript}
BatchScripts == Scripts \ {RateLimitScript}

\* requests >= 2.27 raises requests.exceptions.JSONDecodeError (a
\* RequestException) from response.json(); older releases raise a plain
\* ValueError, which no except clause of the scripts catches.
Builds == {"json_error_is_RequestException", "json_error_is_ValueError"}

EnvValues == {None, "", "set"}

\* the status the setting updaters single out
HTTP_NOT_FOUND == 404
\* statuses the remote system answers with: one 2xx, the 404, one 5xx
StatusCodes == {200, HTTP_NOT_FOUND, 500}

CachePhase == "http_request_cache_settings"
FirewallPhase == "http_request_firewall_custom"
ruleset_name == "Default Cache Settings Ruleset"

Kinds == {"zone", "root"}
Phases == {CachePhase, FirewallPhase}
Names == {ruleset_name, "other name"}
Ids == {None, "", "rs1", "rs2"}

\* entries of the list call's 'result'
Entries == [kind : Kinds, phase : Phases, name : Names, id : Ids]
RulesetLists == UNION {[1..n -> Entries] : n \in 0..MaxRulesets}

\* An answer of the remote system.  transport = TRUE is a connection-level
\* error (no HTTP answer; status and json are then unused).  json tells
\* whether the body decodes as JSON; id is result.id of a creation answer.
TransportError == [transport |-> TRUE, status |-> 0, json |-> FALSE, id |-> None]
HttpResponses(ids) ==
    {r \in [transport : {FALSE}, status : StatusCodes, json : BOOLEAN, id : ids] :
        (r.status >= 400 \/ ~r.json) => r.id = None}
Responses == {TransportError} \cup HttpResponses({None})
CreateResponses == {TransportError} \cup HttpResponses(Ids)

----------------------------------------------------------------------------
(* Pure parts of the scripts *)

\* Python truthiness of an optional string
\* Variant: only a missing value is falsy, the empty string is not
Truthy_NotNone(v) == v # None

Truthy(v) == v \notin {None, ""}

\* Variant: only the token is looked at
CredentialsMissing_TokenOnly(tok, zid) == ~Truthy(tok)

\* if not api_token or not zone_id
CredentialsMissing(tok, zid) == ~Truthy(tok) \/ ~Truthy(zid)

\* Variant: the status of the answer is never looked at
RaisesHTTPError_Never(r) == FALSE

\* response.raise_for_status()
RaisesHTTPError(r) == r.status >= 400

\* The try/except shared by every function that issues a request:
\*   "ok"       the try block ran to its return
\*   "handled"  HTTPError or RequestException was caught
\*   "uncaught" response.json() raised an exception no clause catches
TryOutcome(b, r) ==
    IF r.transport THEN "handled"
    ELSE IF RaisesHTTPError(r) THEN "handled"
    ELSE IF r.json THEN "ok"
    ELSE IF b = "json_error_is_RequestException" THEN "handled"
    ELSE "uncaught"

add_rule_to_ruleset(b, r) == TryOutcome(b, r)
update_zone_setting(b, r) == TryOutcome(b, r)
update_dnssec_setting(b, r) == TryOutcome(b, r)
update_page_shield_setting(b, r) == TryOutcome(b, r)
update_bot_fight_mode(b, r) == TryOutcome(b, r)
deploy_rate_limit_ruleset(b, r) == TryOutcome(b, r)

\* A request as the remote system sees it.
Request(m, e, c, i, k, p) ==
    [method |-> m, endpoint |-> e, container |-> c, item |-> i, kind |-> k, phase |-> p]

ListRequest == Request("GET", "rulesets", "", "", "", "")
CreateRequest(p) == Request("POST", "rulesets", "", ruleset_name, "zone", p)
\* Variant: the rule is appended to the rule list instead of replacing it
RateLimitRequest_Append ==
    Request("POST", "rulesets/phases/http_ratelimit/entrypoint/rules", "",
            "Default Rate Limiting", "", "")

RateLimitRequest ==
    Request("PUT", "rulesets/phases/http_ratelimit/entrypoint", "", "Default Rate Limiting", "", "")

\* A mutation of a batch: the function that sends it and its request
Mutation(f, m, e, i) == [fn |-> f, method |-> m, endpoint |-> e, item |-> i]

\* Variant: the rule list of the ruleset is overwritten with the one rule
AppendRule_Replace(d) == Mutation("add_rule_to_ruleset", "PUT", "rulesets/{ruleset_id}/rules", d)

AppendRule(d) == Mutation("add_rule_to_ruleset", "POST", "rulesets/{ruleset_id}/rules", d)
Setting(n) == Mutation("update_zone_setting", "PATCH", "settings/{setting_name}", n)
Dnssec == Mutation("update_dnssec_setting", "PATCH", "dnssec", "DNSSEC")
\* Variant: page shield is updated with the verb of the generic updater
PageShield_Patch == Mutation("update_page_shield_setting", "PATCH", "page_shield", "Page Shield")

PageShield == Mutation("update_page_shield_setting", "PUT", "page_shield", "Page Shield")
BotFightMode == Mutation("update_bot_fight_mode", "PUT", "bot_management", "Bot Fight Mode")

cache_rules_to_add ==
    <<AppendRule("Bypass Cache for Admin Areas"),
      AppendRule("Bypass Cache for User Login and Portal Pages")>>
firewall_rules_to_add ==
    <<AppendRule("Block High-Risk Countries"), AppendRule("Block High-Risk Scanners")>>
ssl_settings_to_apply ==
    <<Setting("ssl"), Setting("always_use_https"), Setting("min_tls_version"),
      Setting("tls_1_3"), Setting("automatic_https_rewrites")>>
standard_settings_to_apply == <<Setting("hcaptcha_pass")>>
settings_to_apply == <<Setting("speed_brain"), Setting("early_hints"), Setting("0rtt")>>

\* The mutations main() sends, in the order of its statements: the calls
\* before the loop, then the loop over the list.
Plan(s) ==
    CASE s = CacheScript -> cache_rules_to_add
      [] s = FirewallScript -> firewall_rules_to_add
      [] s = TlsScript -> <<Dnssec>> \o ssl_settings_to_apply
      [] s = SecScript -> <<PageShield, BotFightMode>> \o standard_settings_to_apply
      [] s = SpeedScript -> settings_to_apply
      [] OTHER -> <<>>

\* The total the tally is compared with and reported against
Total(s) ==
    CASE s = CacheScript -> Len(cache_rules_to_add)
      [] s = FirewallScript -> Len(firewall_rules_to_add)
      [] s = TlsScript -> Len(ssl_settings_to_apply) + 1
      [] s = SecScript -> Len(standard_settings_to_apply) + 2
      [] s = SpeedScript -> Len(settings_to_apply)
      [] OTHER -> 0

\* The result of the function that sends mutation m, given the answer r
Send(b, m, r) ==
    CASE m.fn = "add_rule_to_ruleset" -> add_rule_to_ruleset(b, r)
      [] m.fn = "update_zone_setting" -> update_zone_setting(b, r)
      [] m.fn = "update_dnssec_setting" -> update_dnssec_setting(b, r)
      [] m.fn = "update_page_shield_setting" -> update_page_shield_setting(b, r)
      [] m.fn = "update_bot_fight_mode" -> update_bot_fight_mode(b, r)

\* Variant: the list is walked from its end
MutationAt_Reversed(s, i) == Plan(s)[Len(Plan(s)) - i + 1]

\* The mutation the i-th iteration sends
MutationAt(s, i) == Plan(s)[i]

\* Variant: a failed mutation is sent again
NextIdx_Retry(i, ok) == IF ok THEN i + 1 ELSE i

\* The loop position after an iteration whose call returned ok
NextIdx(i, ok) == i + 1

\* The tally after an iteration whose call returned ok
Count(c, ok) == IF ok THEN c + 1 ELSE c

\* sys.exit(1) if success_count < total, else the normal exit
ExitDecision(c, total) == IF c < total THEN 1 ELSE 0

\* The phase the Locator of script s looks for
PhaseOf(s) == IF s = CacheScript THEN CachePhase ELSE FirewallPhase

\* if ruleset.get('kind') == 'zone' and ruleset.get('phase') == phase
\* Variant: the ruleset is recognised by its name
Matches_ByName(e, p) == e.name = ruleset_name

Matches(e, p) == e.kind = "zone" /\ e.phase = p

MatchIndexes(rs, p) == {i \in 1..Len(rs) : Matches(rs[i], p)}

\* Variant: the last matching entry wins
FirstMatch_Last(rs, p) ==
    IF MatchIndexes(rs, p) = {} THEN 0
    ELSE CHOOSE i \in MatchIndexes(rs, p) : \A j \in MatchIndexes(rs, p) : i >= j

\* for ruleset in rulesets: ... return: the first matching entry (0: none)
FirstMatch(rs, p) ==
    IF MatchIndexes(rs, p) = {} THEN 0
    ELSE CHOOSE i \in MatchIndexes(rs, p) : \A j \in MatchIndexes(rs, p) : i <= j

\* Variant: no Locator creates
CreatesWhenMissing_Never(s) == FALSE

\* Whether the Locator of script s goes on to create a missing ruleset
CreatesWhenMissing(s) == s = CacheScript

\* new_ruleset_id if it is truthy, else None
CreatedId(r) == IF Truthy(r.id) THEN r.id ELSE None

----------------------------------------------------------------------------
(* Diagnostics *)

\* One failed call on sys.stderr: the item it was about, the status of its
\* "Status Code:" line (0: no such line) and the hint printed with it
Diag(i, st, n) == [item |-> i, status |-> st, note |-> n]

\* The hint update_zone_setting of script s prints after the status code
SettingNote(s, r) ==
    IF s = SpeedScript THEN "permissions"
    ELSE IF r.status = HTTP_NOT_FOUND THEN "plan"
    ELSE "permissions"

\* The hint the function sending mutation m prints in its HTTPError handler
Note(s, m, r) ==
    CASE m.fn = "update_zone_setting" -> SettingNote(s, r)
      [] m.fn = "add_rule_to_ruleset" -> "invalid or duplicate"
      [] m.fn = "update_dnssec_setting" -> "permissions, registrar"
      [] m.fn = "update_page_shield_setting" -> "permissions, plan"
      [] m.fn = "update_bot_fight_mode" -> "permissions, plan"

\* What a call about item i writes to sys.stderr, n being its HTTPError hint
Stderr(b, r, i, n) ==
    IF TryOutcome(b, r) = "ok" THEN <<>>
    ELSE IF TryOutcome(b, r) = "uncaught" THEN <<Diag(i, 0, "traceback")>>
    ELSE IF ~r.transport /\ RaisesHTTPError(r) THEN <<Diag(i, r.status, n)>>
    ELSE <<Diag(i, 0, "something else went wrong")>>

----------------------------------------------------------------------------
(* The remote system *)

Policies == {"arbitrary", "accept_all", "reject_duplicates", "flaky"}

EmptyRemote == [containers |-> <<>>, rules |-> <<>>, settings |-> {}, ratelimit |-> <<>>]

\* identifiers the remote system allocates to the rulesets it creates
IdPool == <<"rs2", "rs3", "rs4", "rs5", "rs6", "rs7">>
FreshId(cs) == IdPool[Len(cs) + 1]

\* what the zone may hold before the first run
InitialContainers == {<<>>} \cup {<<e>> : e \in {x \in Entries : x.id = "rs1"}}
InitialRemotes ==
    {[containers |-> cs, rules |-> <<>>, settings |-> {}, ratelimit |-> rl] :
        cs \in InitialContainers, rl \in {<<>>, <<"Old Rate Limiting">>}}

IsCreateRequest(req) == req.method = "POST" /\ req.endpoint = "rulesets"
IsAppendRequest(req) == req.method = "POST" /\ req.endpoint = "rulesets/{ruleset_id}/rules"

\* the 2xx answers of the remote system, with or without a decodable body
RemoteAccept(req) ==
    {[transport |-> FALSE, status |-> 200, json |-> j,
      id |-> IF IsCreateRequest(req) /\ j THEN FreshId(remote.containers) ELSE None] :
        j \in BOOLEAN}

RemoteReject == [transport |-> FALSE, status |-> 500, json |-> TRUE, id |-> None]

\* the rule is already in the ruleset
IsDuplicate(req) ==
    /\ IsAppendRequest(req)
    /\ \E i \in DOMAIN remote.rules :
        remote.rules[i].container = req.container /\ remote.rules[i].item = req.item

\* The answers the remote system may give to a request
Answers(req) ==
    CASE policy = "arbitrary" -> IF IsCreateRequest(req) THEN CreateResponses ELSE Responses
      [] policy = "accept_all" -> RemoteAccept(req)
      [] policy = "reject_duplicates" ->
            IF IsDuplicate(req) THEN {RemoteReject} ELSE RemoteAccept(req)
      [] policy = "flaky" -> RemoteAccept(req) \cup {RemoteReject, TransportError}

\* The 'result' lists a decodable answer to the list call may carry
Listed == IF policy = "arbitrary" THEN RulesetLists ELSE {remote.containers}

\* What the remote system holds after answering r to req: a 2xx answer means
\* the request landed.  Creation adds a ruleset, POST on a rule list appends,
\* PUT on the entrypoint replaces its rule list, a setting update sets the
\* setting to the one value the scripts send.
Landed(rem, req, r) ==
    IF policy = "arbitrary" \/ r.transport \/ r.status >= 400 THEN rem
    ELSE CASE req.method = "GET" -> rem
           [] IsCreateRequest(req) ->
                [rem EXCEPT !.containers =
                    Append(@, [kind |-> req.kind, phase |-> req.phase,
                               name |-> req.item, id |-> FreshId(@)])]
           [] IsAppendRequest(req) ->
                [rem EXCEPT !.rules =
                    Append(@, [container |-> req.container, item |-> req.item])]
           [] req.method = "PUT" /\ req.endpoint = "rulesets/phases/http_ratelimit/entrypoint" ->
                [rem EXCEPT !.ratelimit = <<req.item>>]
           [] req.method = "POST" /\ req.endpoint = "rulesets/phases/http_ratelimit/entrypoint/rules" ->
                [rem EXCEPT !.ratelimit = Append(@, req.item)]
           [] OTHER ->
                [rem EXCEPT !.settings = @ \cup {[endpoint |-> req.endpoint, item |-> req.item]}]

----------------------------------------------------------------------------
(* The run *)

\* the state of a process at its start
Start ==
    /\ pc = "main"
    /\ rulesets = <<>>
    /\ ruleset_id = None
    /\ idx = 1
    /\ success_count = 0
    /\ exit_code = 0
    /\ log = <<>>
    /\ stderr = <<>>

Init ==
    /\ script \in Scripts
    /\ build \in Builds
    /\ api_token \in EnvValues
    /\ zone_id \in EnvValues
    /\ Start
    /\ policy = "arbitrary"
    /\ remote = EmptyRemote
    /\ run = 1
    /\ completed = 0

Sent(req, r) == Append(log, [req |-> req, resp |-> r])

\* sys.exit(1), or an uncaught exception ending the process
Exit1 ==
    /\ pc' = "done"
    /\ exit_code' = 1

\* main(): the Locator returned id, having written d to sys.stderr;
\* if ruleset_id: ... else: sys.exit(1)
LocatorReturns(id, d) ==
    /\ ruleset_id' = id
    /\ rulesets' = <<>>
    /\ IF Truthy(id)
       THEN /\ pc' = "apply"
            /\ idx' = 1
            /\ success_count' = 0
            /\ stderr' = stderr \o d
            /\ UNCHANGED exit_code
       ELSE /\ Exit1
            /\ stderr' = stderr \o d \o <<Diag("main", 0, "script failed")>>
            /\ UNCHANGED <<idx, success_count>>

\* main(): read the environment and abort when a credential is missing
CheckCredentials ==
    /\ pc = "main"
    /\ IF CredentialsMissing(api_token, zone_id)
       THEN /\ Exit1
            /\ stderr' = stderr \o <<Diag("main", 0, "credentials must be set")>>
       ELSE /\ pc' = IF script \in LocatorScripts THEN "find"
                     ELSE IF script = RateLimitScript THEN "deploy"
                     ELSE "apply"
            /\ UNCHANGED <<exit_code, stderr>>
    /\ UNCHANGED <<script, build, api_token, zone_id, rulesets, ruleset_id, idx,
                   success_count, log, policy, remote, run, completed>>

\* Locator: requests.get(find_url); raise_for_status(); response.json()
ListRulesets ==
    /\ pc = "find"
    /\ \E r \in Answers(ListRequest) :
        \E rs \in IF TryOutcome(build, r) = "ok" THEN Listed ELSE {<<>>} :
            /\ log' = Sent(ListRequest, r)
            /\ remote' = Landed(remote, ListRequest, r)
            /\ CASE TryOutcome(build, r) = "ok" ->
                        /\ rulesets' = rs
                        /\ pc' = "scan"
                        /\ UNCHANGED <<ruleset_id, idx, success_count, exit_code, stderr>>
                 [] TryOutcome(build, r) = "handled" ->
                        LocatorReturns(None, Stderr(build, r, "rulesets", "none"))
                 [] OTHER ->
                        /\ Exit1
                        /\ stderr' = stderr \o Stderr(build, r, "rulesets", "none")
                        /\ UNCHANGED <<rulesets, ruleset_id, idx, success_count>>
    /\ UNCHANGED <<script, build, api_token, zone_id, policy, run, completed>>

\* Locator: the scan of the list for the first (kind, phase) match
ScanRulesets ==
    /\ pc = "scan"
    /\ LET i == FirstMatch(rulesets, PhaseOf(script)) IN
        IF i # 0 THEN LocatorReturns(rulesets[i].id, <<>>)
        ELSE IF CreatesWhenMissing(script)
        THEN /\ pc' = "create"
             /\ UNCHANGED <<rulesets, ruleset_id, idx, success_count, exit_code, stderr>>
        ELSE LocatorReturns(None, <<Diag("rulesets", 0, "could not find, add one manually")>>)
    /\ UNCHANGED <<script, build, api_token, zone_id, log, policy, remote, run, completed>>

\* Locator of the cache script: requests.post(create_url, create_payload)
CreateRuleset ==
    /\ pc = "create"
    /\ \E r \in Answers(CreateRequest(PhaseOf(script))) :
        /\ log' = Sent(CreateRequest(PhaseOf(script)), r)
        /\ remote' = Landed(remote, CreateRequest(PhaseOf(script)), r)
        /\ CASE TryOutcome(build, r) = "ok" ->
                    LocatorReturns(CreatedId(r),
                        IF CreatedId(r) = None
                        THEN <<Diag("rulesets", 0, "create returned no ID")>> ELSE <<>>)
             [] TryOutcome(build, r) = "handled" ->
                    LocatorReturns(None, Stderr(build, r, "rulesets", "none"))
             [] OTHER ->
                    /\ Exit1
                    /\ stderr' = stderr \o Stderr(build, r, "rulesets", "none")
                    /\ UNCHANGED <<rulesets, ruleset_id, idx, success_count>>
    /\ UNCHANGED <<script, build, api_token, zone_id, policy, run, completed>>

\* main(): one mutation of the batch: the call and the tally update
ApplyMutation ==
    /\ pc = "apply"
    /\ idx <= Len(Plan(script))
    /\ LET m == MutationAt(script, idx)
           req == Request(m.method, m.endpoint,
                          IF script \in LocatorScripts THEN ruleset_id ELSE "",
                          m.item, "", "")
       IN \E r \in Answers(req) :
            LET res == Send(build, m, r) IN
            /\ log' = Sent(req, r)
            /\ remote' = Landed(remote, req, r)
            /\ stderr' = stderr \o Stderr(build, r, m.item, Note(script, m, r))
            /\ IF res = "uncaught"
               THEN /\ Exit1
                    /\ UNCHANGED <<idx, success_count>>
               ELSE /\ success_count' = Count(success_count, res = "ok")
                    /\ idx' = NextIdx(idx, res = "ok")
                    /\ UNCHANGED <<pc, exit_code>>
    /\ UNCHANGED <<script, build, api_token, zone_id, rulesets, ruleset_id, policy,
                   run, completed>>

\* main(): after the loop, the exit decision from the tally
Finish ==
    /\ pc = "apply"
    /\ idx > Len(Plan(script))
    /\ pc' = "done"
    /\ exit_code' = ExitDecision(success_count, Total(script))
    /\ completed' = completed + 1
    /\ UNCHANGED <<script, build, api_token, zone_id, rulesets, ruleset_id, idx,
                   success_count, log, stderr, policy, remote, run>>

\* main() of the rate-limit script: if not deploy_rate_limit_ruleset(): sys.exit(1)
DeployRateLimit ==
    /\ pc = "deploy"
    /\ \E r \in Answers(RateLimitRequest) :
        LET res == deploy_rate_limit_ruleset(build, r) IN
        /\ log' = Sent(RateLimitRequest, r)
        /\ remote' = Landed(remote, RateLimitRequest, r)
        /\ pc' = "done"
        /\ exit_code' = IF res = "ok" THEN 0 ELSE 1
        /\ stderr' = stderr \o Stderr(build, r, RateLimitRequest.item, "none")
                            \o (IF res = "handled"
                                THEN <<Diag("main", 0, "script failed")>> ELSE <<>>)
        /\ completed' = IF res = "uncaught" THEN completed ELSE completed + 1
    /\ UNCHANGED <<script, build, api_token, zone_id, rulesets, ruleset_id, idx,
                   success_count, policy, run>>

Next ==
    \/ CheckCredentials
    \/ ListRulesets
    \/ ScanRulesets
    \/ CreateRuleset
    \/ ApplyMutation
    \/ Finish
    \/ DeployRateLimit

Spec == Init /\ [][Next]_vars

----------------------------------------------------------------------------
(* Consecutive runs against a remote system that keeps what it accepted *)

InitRerun ==
    /\ script \in Scripts
    /\ build \in Builds
    /\ api_token \in EnvValues
    /\ zone_id \in EnvValues
    /\ Start
    /\ policy \in Policies \ {"arbitrary"}
    /\ policy = "flaky" => script \in LocatorScripts
    /\ remote \in InitialRemotes
    /\ script \notin LocatorScripts => remote.containers = <<>>
    /\ script # RateLimitScript => remote.ratelimit = <<>>
    /\ run = 1
    /\ completed = 0

\* the script is started again: a new process, the same environment
StartNextRun ==
    /\ pc = "done"
    /\ run < MaxRuns
    /\ run' = run + 1
    /\ pc' = "main"
    /\ rulesets' = <<>>
    /\ ruleset_id' = None
    /\ idx' = 1
    /\ success_count' = 0
    /\ exit_code' = 0
    /\ log' = <<>>
    /\ stderr' = <<>>
    /\ UNCHANGED <<script, build, api_token, zone_id, policy, remote, completed>>

NextRerun ==
    \/ Next
    \/ StartNextRun

SpecRerun == InitRerun /\ [][NextRerun]_vars

----------------------------------------------------------------------------
(* What the remote system observed *)

Missing(v) == v = None \/ v = ""
EnvMissing == Missing(api_token) \/ Missing(zone_id)

IsList(e) == e.req.method = "GET" /\ e.req.endpoint = "rulesets"
IsCreate(e) == e.req.method = "POST" /\ e.req.endpoint = "rulesets"
IsMutation(e) == ~IsList(e) /\ ~IsCreate(e)

\* the remote system answered with a 2xx status
Accepted(r) == ~r.transport /\ r.status >= 200 /\ r.status < 300
\* a non-2xx status or a transport error
Failed(r) == r.transport \/ r.status < 200 \/ r.status >= 300

CountOf(l, P(_)) == Cardinality({i \in DOMAIN l : P(l[i])})
MutationLog == SelectSeq(log, IsMutation)
IsFailedEntry(e) == Failed(e.resp)
IsAcceptedEntry(e) == Accepted(e.resp)
N == Len(Plan(script))

\* the run got past the Locator stage (or has none)
LocatorPassed == script \notin LocatorScripts \/ (ruleset_id # None /\ ruleset_id # "")

----------------------------------------------------------------------------
(* Claims *)

\* C1: in every batch orchestrator, whichever k of the N mutations fail (by a
\* non-2xx answer or a transport error), a terminated run that got past the
\* credentials check and the Locator has issued all N mutation requests, its
\* succeeded count is N - k, and with k >= 1 it exited 1 (so only after the
\* N-th request).
C1_AllAttemptedAndCounted ==
    (script \in BatchScripts /\ pc = "done" /\ ~EnvMissing /\ LocatorPassed) =>
        LET k == CountOf(MutationLog, IsFailedEntry) IN
            /\ Len(MutationLog) = N
            /\ success_count = N - k
            /\ (k >= 1 => exit_code = 1)

\* C2: with the credentials present, the Locator passed and every mutation
\* request accepted by the remote system, the succeeded count equals the
\* attempted count and the run exits 0; and a run exits 0 only if every
\* mutation of the run was counted as succeeded.
C2_AllAcceptedExitsZero ==
    /\ (pc = "done" /\ ~EnvMissing /\ LocatorPassed
            /\ \A i \in DOMAIN MutationLog : Accepted(MutationLog[i].resp)) =>
           /\ exit_code = 0
           /\ script \in BatchScripts => success_count = Len(MutationLog)
    /\ (pc = "done" /\ exit_code = 0 /\ script \in BatchScripts) =>
           /\ ~EnvMissing
           /\ success_count = N
           /\ Len(MutationLog) = N

\* C3: the succeeded count is the number of mutation requests the remote
\* system answered with a 2xx status, whatever the body of the answer.
C3_CountIsAccepted ==
    script \in BatchScripts => success_count = CountOf(MutationLog, IsAcceptedEntry)

\* C4: with CLOUDFLARE_API_TOKEN or ZONE_ID unset or empty, no script issues
\* any request, and the run ends with exit status 1 straight from the
\* credentials check.
C4_NoRequestWithoutCredentials ==
    EnvMissing =>
        /\ log = <<>>
        /\ pc \in {"main", "done"}
        /\ pc = "done" => exit_code = 1

C4_Witness ==
    /\ pc = "done"
    /\ api_token = "set"
    /\ zone_id = ""
    /\ exit_code = 1
    /\ log = <<>>

C5_IsFirst(i) ==
    /\ i \in 1..Len(rulesets)
    /\ rulesets[i].kind = "zone" /\ rulesets[i].phase = PhaseOf(script)
    /\ \A j \in 1..(i - 1) :
        ~(rulesets[j].kind = "zone" /\ rulesets[j].phase = PhaseOf(script))

CreateCount(l) == CountOf(l, IsCreate)

\* C5: when the list holds an entry of kind 'zone' and the script's phase, the
\* Locator returns the id of the first such entry in list order and issues no
\* creation request, in that step or later in the run; an entry is chosen by
\* kind and phase alone, so with no such entry no entry's id is returned.
C5_FirstMatchNoCreate ==
    [][ /\ (pc = "scan" /\ \E i \in 1..Len(rulesets) : C5_IsFirst(i)) =>
            /\ \A i \in 1..Len(rulesets) : C5_IsFirst(i) => ruleset_id' = rulesets[i].id
            /\ log' = log
            /\ pc' \in {"apply", "done"}
        /\ (pc = "scan" /\ ~\E i \in 1..Len(rulesets) : C5_IsFirst(i)) =>
            ruleset_id' = None
        /\ pc \in {"apply", "done"} =>
            /\ pc' \in {"apply", "done"}
            /\ CreateCount(log') = CreateCount(log)
      ]_vars

\* a ruleset was found by listing alone and the first rule was sent to it
C5_Witness ==
    /\ script \in LocatorScripts
    /\ pc = "apply"
    /\ ruleset_id = "rs2"
    /\ Len(log) = 2
    /\ IsList(log[1])
    /\ IsMutation(log[2]) /\ log[2].req.container = "rs2"

C6_NoMatch ==
    \A i \in 1..Len(rulesets) :
        ~(rulesets[i].kind = "zone" /\ rulesets[i].phase = PhaseOf(script))

\* C6 as claimed: in both scripts with a Locator, a list without a match is
\* followed by a creation request.
C6_BothScriptsCreate ==
    [][ (script \in LocatorScripts /\ pc = "scan" /\ C6_NoMatch) => pc' = "create" ]_vars

\* C6 as amended: the cache script's Locator answers a list without a match
\* with exactly one creation request of kind 'zone' and its own phase; if that
\* is accepted with an identifier, the Locator returns it and every mutation
\* request of the run goes to that container.  The firewall script's Locator
\* issues no creation request: the run ends with exit status 1 and no
\* mutation request.
C6_CacheCreatesFirewallFails ==
    [][ /\ (pc = "scan" /\ C6_NoMatch /\ script = CacheScript) =>
            pc' = "create" /\ log' = log
        /\ (pc = "scan" /\ C6_NoMatch /\ script = FirewallScript) =>
            pc' = "done" /\ exit_code' = 1 /\ log' = log
        /\ script = FirewallScript => CreateCount(log') = 0
        /\ pc = "create" =>
            /\ CreateCount(log) = 0
            /\ pc' \in {"apply", "done"}
            /\ Len(log') = Len(log) + 1
            /\ LET e == log'[Len(log')] IN
                /\ e.req.method = "POST" /\ e.req.endpoint = "rulesets"
                /\ e.req.kind = "zone" /\ e.req.phase = CachePhase
                /\ (Accepted(e.resp) /\ e.resp.id # None /\ e.resp.id # "") =>
                    ruleset_id' = e.resp.id /\ pc' = "apply"
        /\ (script \in LocatorScripts /\ pc \in {"apply", "done"}) =>
            /\ pc' \in {"apply", "done"}
            /\ CreateCount(log') = CreateCount(log)
            /\ log' # log =>
                /\ IsMutation(log'[Len(log')])
                /\ log'[Len(log')].req.container = ruleset_id
      ]_vars

\* the cache script created the ruleset and sent its first rule to it
C6_Witness ==
    /\ script = CacheScript
    /\ Len(log) = 3
    /\ IsList(log[1])
    /\ IsCreate(log[2]) /\ log[2].resp.id = "rs1"
    /\ IsMutation(log[3]) /\ log[3].req.container = "rs1"
    /\ ruleset_id = "rs1"

ListFailed == \E i \in DOMAIN log : IsList(log[i]) /\ Failed(log[i].resp)
CreateFailedOrNoId ==
    \E i \in DOMAIN log :
        IsCreate(log[i]) /\ (Failed(log[i].resp) \/ log[i].resp.id = None \/ log[i].resp.id = "")

\* C7: a failed list call (non-2xx or transport error) is followed by no
\* creation request; and after a failed list call, a failed creation request
\* or a creation answer without identifier the run has ended with exit status
\* 1 and has issued no mutation request.
C7_LocatorFailureTerminal ==
    script \in LocatorScripts =>
        /\ ListFailed => CreateCount(log) = 0
        /\ (ListFailed \/ CreateFailedOrNoId) =>
            /\ pc = "done"
            /\ exit_code = 1
            /\ Len(MutationLog) = 0

\* the creation was accepted but its answer carried no identifier
C7_Witness ==
    /\ script = CacheScript
    /\ pc = "done"
    /\ exit_code = 1
    /\ Len(log) = 2
    /\ IsCreate(log[2])
    /\ Accepted(log[2].resp) /\ log[2].resp.json /\ log[2].resp.id = None

\* C8: a run of the rate-limit script with credentials issues exactly one
\* request, a PUT of the rule list on the http_ratelimit entrypoint, never a
\* list, create or append request, and exits 1 if and only if that request
\* fails.
C8_OnePutExitIffFailed ==
    (script = RateLimitScript /\ ~EnvMissing) =>
        /\ Len(log) <= 1
        /\ \A i \in DOMAIN log :
            /\ log[i].req.method = "PUT"
            /\ log[i].req.endpoint = "rulesets/phases/http_ratelimit/entrypoint"
        /\ pc = "done" =>
            /\ Len(log) = 1
            /\ exit_code = 1 <=> Failed(log[1].resp)

IsLocatorRequest(e) ==
    \/ e.req = ListRequest
    \/ e.req = CreateRequest(PhaseOf(script))

\* C9: in every batch script the log is the Locator's requests followed by
\* the mutation requests, and the mutation requests are a prefix of the
\* script's fixed list in list order, whichever requests failed.
C9_ListOrder ==
    script \in BatchScripts =>
        \E n \in 0..Len(log) :
            /\ \A i \in 1..n : IsLocatorRequest(log[i])
            /\ Len(log) - n <= N
            /\ \A i \in (n + 1)..Len(log) :
                /\ ~IsLocatorRequest(log[i])
                /\ log[i].req.method = Plan(script)[i - n].method
                /\ log[i].req.endpoint = Plan(script)[i - n].endpoint
                /\ log[i].req.item = Plan(script)[i - n].item

\* a complete run of the TLS/DNSSEC script in which two requests failed
C9_Witness ==
    /\ script = TlsScript
    /\ pc = "done"
    /\ Len(log) = 6
    /\ log[1].req.endpoint = "dnssec" /\ Failed(log[1].resp)
    /\ log[4].req.item = "min_tls_version" /\ Failed(log[4].resp)
    /\ log[6].req.item = "automatic_https_rewrites"

\* two entries of the log ask for the same operation
SameOperation(e, f) ==
    /\ e.req.method = f.req.method
    /\ e.req.endpoint = f.req.endpoint
    /\ e.req.item = f.req.item

IsWriteOf(e, m) ==
    /\ IsMutation(e)
    /\ e.req.method = m.method
    /\ e.req.endpoint = m.endpoint
    /\ e.req.item = m.item

\* C10: no operation is requested twice in a run: at most one list request,
\* at most one creation request, at most one write request per mutation
\* (exactly one once the loop over the mutations has run to its end), and at
\* most N + 2 requests in all.
C10_NoRetry ==
    /\ \A i, j \in DOMAIN log : i < j =>
        /\ ~(IsList(log[i]) /\ IsList(log[j]))
        /\ ~(IsCreate(log[i]) /\ IsCreate(log[j]))
        /\ ~SameOperation(log[i], log[j])
    /\ Len(log) <= (IF script = RateLimitScript THEN 1 ELSE N) + 2
    /\ (script \in BatchScripts /\ pc \in {"apply", "done"} /\ idx > N) =>
        LET plan == Plan(script) IN
            \A k \in 1..N : \E i \in DOMAIN log : IsWriteOf(log[i], plan[k])

\* list, create and both rules, with a failed rule: N + 2 requests
C10_Witness ==
    /\ script = CacheScript
    /\ pc = "done"
    /\ Len(log) = N + 2
    /\ IsCreate(log[2])
    /\ Failed(log[3].resp)

----------------------------------------------------------------------------
(* Consecutive runs *)

SettingScripts == {TlsScript, SecScript, SpeedScript}

\* the settings a complete run of script s sets
SettingsOf(s) ==
    {[endpoint |-> Plan(s)[i].endpoint, item |-> Plan(s)[i].item] : i \in DOMAIN Plan(s)}

\* C11: against a remote system that accepts every request, once one run of
\* a setting script or of the rate-limit script has completed, the remote
\* state is the state one run leaves and stays so through every later run:
\* the settings of the script's list are set, and the rate-limit entrypoint
\* holds exactly the one fixed rule, whatever it held before.
C11_RerunIdempotent ==
    (policy = "accept_all" /\ completed >= 1) =>
        /\ script \in SettingScripts => remote.settings = SettingsOf(script)
        /\ script = RateLimitScript => remote.ratelimit = <<"Default Rate Limiting">>
        /\ script \in SettingScripts \cup {RateLimitScript} =>
                remote.containers = <<>> /\ remote.rules = <<>>

\* the rate-limit script ran twice to the end against an accepting remote
C11_Witness ==
    /\ policy = "accept_all"
    /\ script = RateLimitScript
    /\ completed >= 2
    /\ pc = "done"
    /\ remote.ratelimit = <<"Default Rate Limiting">>

\* how many times rule d is in ruleset c at the remote system
Copies(c, d) ==
    Cardinality({i \in DOMAIN remote.rules :
                    remote.rules[i] = [container |-> c, item |-> d]})

\* every run so far ran to the end of its list, and the last one has ended
AllRunsComplete == pc = "done" /\ completed = run

\* C12: re-running the cache or the firewall script is not idempotent.
\* Against a remote system that accepts every append, r complete runs leave
\* r copies of each of the N rules in the ruleset; against one that rejects
\* exact duplicates, every complete run after a complete first one counts 0
\* of N and exits 1, and the ruleset keeps one copy of each rule.
C12_RerunAppendsAgain ==
    (script \in LocatorScripts /\ AllRunsComplete) =>
        /\ policy = "accept_all" =>
                \A i \in DOMAIN Plan(script) :
                    Copies(ruleset_id, Plan(script)[i].item) = run
        /\ (policy = "reject_duplicates" /\ run >= 2) =>
                /\ success_count = 0
                /\ exit_code = 1
                /\ \A i \in DOMAIN Plan(script) :
                        Copies(ruleset_id, Plan(script)[i].item) = 1

\* the cache script ran twice to the end and the ruleset holds every rule twice
C12_Witness ==
    /\ policy = "accept_all"
    /\ script = CacheScript
    /\ AllRunsComplete
    /\ run >= 2
    /\ success_count = N
    /\ \A i \in DOMAIN Plan(script) : Copies(ruleset_id, Plan(script)[i].item) >= 2

IsCacheContainer(e) == e.kind = "zone" /\ e.phase = CachePhase
CreatedHere(e) == \E k \in DOMAIN IdPool : e.id = IdPool[k]

\* C13: across the consecutive runs of the cache script against a remote
\* system that lists the rulesets it holds, the remote system never holds two
\* rulesets of kind zone and the cache-settings phase, at most one ruleset
\* was ever created by the runs, and every rule of every run is in the one
\* (zone, cache-settings) ruleset.
C13_OneCacheContainer ==
    script = CacheScript =>
        /\ \A i, j \in DOMAIN remote.containers :
                (IsCacheContainer(remote.containers[i])
                    /\ IsCacheContainer(remote.containers[j])) => i = j
        /\ \A i, j \in DOMAIN remote.containers :
                (CreatedHere(remote.containers[i])
                    /\ CreatedHere(remote.containers[j])) => i = j
        /\ \A k \in DOMAIN remote.rules :
                \E i \in DOMAIN remote.containers :
                    /\ IsCacheContainer(remote.containers[i])
                    /\ remote.rules[k].container = remote.containers[i].id
        /\ \A k \in DOMAIN log :
                IsMutation(log[k]) =>
                    \E i \in DOMAIN remote.containers :
                        /\ IsCacheContainer(remote.containers[i])
                        /\ log[k].req.container = remote.containers[i].id

\* a later run found the ruleset an earlier run had created, sent no creation
\* request and added its rules to that ruleset
C13_Witness ==
    /\ script = CacheScript
    /\ run >= 2
    /\ pc = "done"
    /\ \E i \in DOMAIN remote.containers :
            CreatedHere(remote.containers[i]) /\ ruleset_id = remote.containers[i].id
    /\ Len(log) = N + 1
    /\ \A k \in DOMAIN log : ~IsCreate(log[k])
    /\ Len(remote.rules) > N

----------------------------------------------------------------------------
(* Diagnostics and write modes *)

\* log entry e is a generic setting update rejected with HTTP 404
IsSetting404(e) ==
    /\ e.req.endpoint = "settings/{setting_name}"
    /\ ~e.resp.transport
    /\ e.resp.status = HTTP_NOT_FOUND

\* the run wrote a diagnostic for item i that shows the 404 and the plan hint
PlanDiagnostic(i) ==
    \E k \in DOMAIN stderr : stderr[k] = Diag(i, HTTP_NOT_FOUND, "plan")

\* C14: in the TLS/DNSSEC, bot/page-shield and speed scripts, a generic
\* setting update rejected with HTTP 404 gets a diagnostic that shows the
\* status 404 and notes a possible plan limitation, is not counted, and a run
\* that went through its whole list has attempted every mutation and exits 1.
C14_NotFoundNotesPlan ==
    script \in SettingScripts =>
        \A k \in DOMAIN log :
            IsSetting404(log[k]) =>
                /\ PlanDiagnostic(log[k].req.item)
                /\ success_count < Len(log)
                /\ (pc = "done" /\ idx > Len(Plan(script))) =>
                        Len(log) = Total(script) /\ exit_code = 1

\* the one write mode of the mutations sent to an endpoint
WriteModeOf(endpoint) ==
    CASE endpoint = "rulesets/{ruleset_id}/rules" -> "POST"
      [] endpoint \in {"settings/{setting_name}", "dnssec"} -> "PATCH"
      [] endpoint \in {"page_shield", "bot_management",
                       "rulesets/phases/http_ratelimit/entrypoint"} -> "PUT"
      [] OTHER -> "none"

\* C15: every mutation request of every run has the write mode of its kind:
\* rule additions POST to the rules of the ruleset, generic settings and
\* DNSSEC PATCH, page shield, bot fight mode and the rate-limit rule list PUT.
C15_FixedWriteMode ==
    \A k \in DOMAIN log :
        IsMutation(log[k]) =>
            /\ WriteModeOf(log[k].req.endpoint) # "none"
            /\ log[k].req.method = WriteModeOf(log[k].req.endpoint)

\* a finished run of the bot/page-shield script: one PATCH and two PUTs
C15_Witness ==
    /\ script = SecScript
    /\ pc = "done"
    /\ Len(log) = Total(script)
    /\ \E k \in DOMAIN log :
            log[k].req.endpoint = "page_shield" /\ log[k].req.method = "PUT"
    /\ \E k \in DOMAIN log :
            log[k].req.endpoint = "bot_management" /\ log[k].req.method = "PUT"
    /\ \E k \in DOMAIN log :
            log[k].req.endpoint = "settings/{setting_name}" /\ log[k].req.method = "PATCH"

----------------------------------------------------------------------------
(* Tally and termination *)

\* C16: in every state of a batch run 0 <= succeeded count <= mutation
\* requests issued so far <= reported total, and a run that passed the
\* Locator stage and has ended issued as many mutation requests as the total
\* it reports.
C16_TallyInvariant ==
    script \in BatchScripts =>
        /\ 0 <= success_count
        /\ success_count <= Len(MutationLog)
        /\ Len(MutationLog) <= Total(script)
        /\ (pc = "done" /\ ~EnvMissing /\ LocatorPassed) =>
                Len(MutationLog) = Total(script)

\* the first entry of the list that matches (kind, phase) has no usable id
FirstMatchWithoutId ==
    \E i \in 1..Len(rulesets) : C5_IsFirst(i) /\ Missing(rulesets[i].id)

\* C17: when the first list entry matching (kind, phase) has a missing or
\* empty id, the scan ends the run there: no request is sent (no creation, no
\* mutation), the id of no later entry is taken, and the run exits 1; and no
\* mutation request of a script with a Locator ever has a missing or empty
\* ruleset identifier as its target.
C17_NoIdIsLocatorFailure ==
    [][ /\ (pc = "scan" /\ FirstMatchWithoutId) =>
            /\ pc' = "done"
            /\ exit_code' = 1
            /\ log' = log
            /\ Missing(ruleset_id')
        /\ script \in LocatorScripts =>
            \A k \in DOMAIN log' :
                IsMutation(log'[k]) => ~Missing(log'[k].req.container)
      ]_vars

\* the list call succeeded, the matching entry had an empty id, and the run
\* ended with that one request
C17_Witness ==
    /\ script \in LocatorScripts
    /\ pc = "done"
    /\ exit_code = 1
    /\ Len(log) = 1
    /\ Accepted(log[1].resp) /\ log[1].resp.json
    /\ ruleset_id = ""

\* C18: a run that has ended has exit status 0 or 1, and it ended before its
\* whole mutation list was attempted only by the missing-credentials abort or
\* the Locator-failure abort: once the first mutation request is issued, the
\* run does not end before the last one is.
C18_OnlyTwoEarlyExits ==
    (script \in BatchScripts /\ pc = "done") =>
        /\ exit_code \in {0, 1}
        /\ Len(MutationLog) < Total(script) =>
                /\ EnvMissing \/ ~LocatorPassed
                /\ Len(MutationLog) = 0

====
